---- MODULE Spec2Model ----
(***************************************************************************)
(* A model of the Avito monitoring bot: the request executor of            *)
(* avito_api.py (AvitoAPI._make_request with its token refresh and its     *)
(* transport session) and the chat handler and poll cycle of bot.py        *)
(* (AvitoBot.handle_message, AvitoBot.check_prices) over the shared        *)
(* user_items registry.                                                    *)
(*                                                                         *)
(* Coroutines are cut at their await points: one action runs a coroutine   *)
(* from one suspension to the next, as the asyncio event loop does.        *)
(***************************************************************************)
EXTENDS Integers, Sequences, FiniteSets, TLC

VARIABLES
    \* ---- AvitoAPI (avito_api.py) ----
    access_token,       \* self.access_token: NoToken or <<k>>
    token_expires_at,   \* self.token_expires_at: None (<<>>) or <<t>>
    session,            \* self._session: none / open / closed, with the headers it was built
                        \* with, and how many sessions were built and are not closed
    pc,                 \* where the logical request of _make_request stands
    retry_count,        \* the retry_count argument of the current frame
    endpoint,           \* the endpoint argument
    params,             \* the params argument: the query parameters of the request
    outcome,            \* how the logical request ended: its return or the exception it raised
    trace,              \* what the logical request did so far (sends, answers, refreshes, sleeps)
    \* ---- bot.py ----
    user_items,         \* the module-level dict user_id -> {item_id: last_price}, in insertion order
    hpc,                \* handle_message: "idle", or "fetch" while it awaits get_item_details
    h_user,             \* its user_id
    h_text,             \* its text
    ppc,                \* check_prices: "idle", "fetch", "send_removed", "send_changed"
    p_ulen,             \* the size of user_items when the iterator of the outer loop was made
    p_upos,             \* the position of the outer loop in user_items
    p_snap,             \* items.copy(), the list the inner loop runs over
    p_ipos,             \* the position of the inner loop in p_snap
    p_price,            \* current_price, kept while the price-change message is sent
    out,                \* the message the last step sent to a user, if any
    faults              \* how many answers of the outside world were not the usual one

apiVars == <<access_token, token_expires_at, session, pc, retry_count, endpoint, params,
            outcome, trace>>

pollVars == <<ppc, p_ulen, p_upos, p_snap, p_ipos, p_price>>

botVars == <<user_items, hpc, h_user, h_text, pollVars, out, faults>>

vars == <<apiVars, botVars>>

----------------------------------------------------------------------------
(* config.py *)

MAX_RETRIES == 3
RETRY_DELAY == 5
MAX_ITEMS_PER_USER == 10
PRICE_CHANGE_THRESHOLD == 5

\* token_data.get('expires_in', 3600) in refresh_token
DEFAULT_EXPIRES_IN == 3600

----------------------------------------------------------------------------
(* Bounds of the model *)

\* The auth server issues tokens <<1>> .. <<MaxToken>>.
MaxToken == 2

\* In a run of the bot, at most MaxFaults answers of the outside world are other
\* than the usual one (the listing at its usual price, the message delivered).
MaxFaults == 2

\* The user who fills the watch set knows the listings 1 .. MaxCapId, and in
\* that user's run at most MaxCapFaults answers are other than the usual one.
MaxCapId == 11
MaxCapFaults == 1

\* In the run with users who join during a poll cycle, at most MaxJoinFaults
\* answers are other than the usual one.
MaxJoinFaults == 1

----------------------------------------------------------------------------
(* Values *)

NoToken == <<>>
Tokens == {<<k>> : k \in 1..MaxToken}
\* os.getenv('AVITO_ACCESS_TOKEN'): unset, or the token the operator configured.
InitTokens == {NoToken, <<1>>}

None == <<>>

\* What the server may answer: the status and what response.json() makes of the body.
Statuses == {200, 401, 404, 500}
\* "json": a JSON body; "ctype": a body that is not application/json, for which
\* aiohttp's response.json() raises ContentTypeError, a ClientError;
\* "malformed": application/json that does not parse (json.JSONDecodeError, a ValueError).
Bodies == {"json", "ctype", "malformed"}

Endpoints == {"/items/1", "/categories"}

\* datetime.now() at the time of a refresh, and the expires_in field of the answer
\* (<<>> when the answer has none).
Times == {100}
ExpiresIn == {<<>>, <<60>>}

\* An entry of the trace: what happened, a number (the attempt count, the status,
\* the seconds slept), the body kind of an answer, the Authorization header of a send.
Ev(e, n, b, a) == [e |-> e, n |-> n, b |-> b, auth |-> a]

NoOutcome == [kind |-> "none", endpoint |-> ""]

\* params=None: a request without query parameters.
NoParams == <<>>

----------------------------------------------------------------------------
(* AvitoAPI *)

\* _get_headers: the Authorization header is there only for a truthy token.
_get_headers(tok) ==
    [ContentType |-> "application/json",
     Accept |-> "application/json",
     Authorization |-> IF tok # NoToken THEN <<"Bearer", tok[1]>> ELSE <<>>]

NoSession == [st |-> "none", headers |-> _get_headers(NoToken), live |-> 0]

\* A get_session that builds a session at every call.
get_session_Always(s, tok) ==
    [st |-> "open", headers |-> _get_headers(tok), live |-> s.live + 1]

\* get_session: a session is built, with the headers of that moment, only when
\* there is none or it is closed.
get_session(s, tok) ==
    IF s.st = "none" \/ s.st = "closed"
    THEN [st |-> "open", headers |-> _get_headers(tok), live |-> s.live + 1]
    ELSE s

\* The guard at the head of _make_request, off by one.
RetryLimitReached_OffByOne(rc) == rc > MAX_RETRIES

\* The guard at the head of _make_request.
RetryLimitReached(rc) == rc >= MAX_RETRIES

\* response.json()
ResponseJson(body) ==
    CASE body = "json" -> "ok"
      [] body = "ctype" -> "ClientError"
      [] OTHER -> "ValueError"

\* The branch taken were a 5xx answer handled as a 401 is (refresh, no sleep).
Classify_RefreshOn5xx(status, body) ==
    IF status = 401 \/ status >= 500 THEN "refresh"
    ELSE IF status >= 400 THEN
        (CASE ResponseJson(body) = "ok" -> "api_error"
           [] ResponseJson(body) = "ClientError" -> "client_error"
           [] OTHER -> "value_error")
    ELSE
        (CASE ResponseJson(body) = "ok" -> "success"
           [] ResponseJson(body) = "ClientError" -> "client_error"
           [] OTHER -> "value_error")

\* The branch _make_request takes on an answer, in the order of its tests.
Classify(status, body) ==
    IF status = 401 THEN "refresh"
    ELSE IF status >= 500 THEN "sleep"
    ELSE IF status >= 400 THEN
        (CASE ResponseJson(body) = "ok" -> "api_error"
           [] ResponseJson(body) = "ClientError" -> "client_error"
           [] OTHER -> "value_error")
    ELSE
        (CASE ResponseJson(body) = "ok" -> "success"
           [] ResponseJson(body) = "ClientError" -> "client_error"
           [] OTHER -> "value_error")

\* An answer without expires_in taken as one that expires at once.
ExpiresInOf_NoDefault(x) == IF x = <<>> THEN 0 ELSE x[1]

\* token_data.get('expires_in', 3600)
ExpiresInOf(x) == IF x = <<>> THEN DEFAULT_EXPIRES_IN ELSE x[1]

\* A caller starts a logical request, the one before it (if any) being over:
\* _make_request(method, endpoint), retry_count = 0.
Call(ep) ==
    /\ pc \in {"idle", "done"}
    /\ pc' = "entry"
    /\ retry_count' = 0
    /\ endpoint' = ep
    /\ params' = NoParams
    /\ outcome' = NoOutcome
    /\ trace' = <<>>
    /\ UNCHANGED <<access_token, token_expires_at, session>>
    /\ UNCHANGED botVars

\* A frame of _make_request from its head to the await of session.request.
Entry ==
    /\ pc = "entry"
    /\ IF RetryLimitReached(retry_count)
       THEN /\ outcome' = [kind |-> "RetryExhausted", endpoint |-> endpoint]
            /\ pc' = "done"
            /\ UNCHANGED <<session, trace>>
       ELSE /\ session' = get_session(session, access_token)
            /\ trace' = Append(trace, Ev("send", retry_count, "", session'.headers.Authorization))
            /\ pc' = "inflight"
            /\ UNCHANGED outcome
    /\ UNCHANGED <<access_token, token_expires_at, retry_count, endpoint>>
    /\ UNCHANGED <<params, botVars>>

\* A retry path that sleeps twice.
StartSleep_Twice(tr) ==
    Append(Append(tr, Ev("sleep", RETRY_DELAY, "", <<>>)), Ev("sleep", RETRY_DELAY, "", <<>>))

\* A retry path that calls again at once, without the sleep.
StartSleep_NoSleep(tr) == tr

\* await asyncio.sleep(RETRY_DELAY), of the 5xx branch and of the except
\* aiohttp.ClientError handler. The sleep is the suspension; SleepDone is the
\* recursive call after it.
StartSleep(tr) == Append(tr, Ev("sleep", RETRY_DELAY, "", <<>>))

\* The await of session.request (with the read of the body) ends: the transport
\* fails with a ClientError, the total timeout of the session expires
\* (asyncio.TimeoutError, which is no ClientError), or an answer is there.
Response ==
    /\ pc = "inflight"
    /\ \/ \* aiohttp.ClientError: caught
          /\ trace' = StartSleep(Append(trace, Ev("cerr", 0, "", <<>>)))
          /\ pc' = "sleeping"
          /\ UNCHANGED outcome
       \/ \* asyncio.TimeoutError: not caught by except aiohttp.ClientError
          /\ trace' = Append(trace, Ev("timeout", 0, "", <<>>))
          /\ outcome' = [kind |-> "TimeoutError", endpoint |-> ""]
          /\ pc' = "done"
       \/ \E status \in Statuses, body \in Bodies :
            LET branch == Classify(status, body)
                \* the body counts only where response.json() is called
                read == IF branch \in {"refresh", "sleep"} THEN "" ELSE body
                tr == Append(trace, Ev("resp", status, read, <<>>))
            IN  CASE branch = "refresh" ->
                       /\ trace' = Append(tr, Ev("refresh", 0, "", <<>>))
                       /\ pc' = "refreshing"
                       /\ UNCHANGED outcome
                  [] branch = "sleep" ->
                       /\ trace' = StartSleep(tr)
                       /\ pc' = "sleeping"
                       /\ UNCHANGED outcome
                  [] branch = "client_error" ->
                       /\ trace' = StartSleep(tr)
                       /\ pc' = "sleeping"
                       /\ UNCHANGED outcome
                  [] branch = "api_error" ->
                       /\ trace' = tr
                       /\ outcome' = [kind |-> "APIError", endpoint |-> ""]
                       /\ pc' = "done"
                  [] branch = "value_error" ->
                       /\ trace' = tr
                       /\ outcome' = [kind |-> "ValueError", endpoint |-> ""]
                       /\ pc' = "done"
                  [] OTHER ->
                       /\ trace' = tr
                       /\ outcome' = [kind |-> "Success", endpoint |-> ""]
                       /\ pc' = "done"
    /\ UNCHANGED <<access_token, token_expires_at, session, retry_count, endpoint>>
    /\ UNCHANGED <<params, botVars>>

\* asyncio.sleep(RETRY_DELAY) is over: _make_request(..., retry_count + 1).
SleepDone ==
    /\ pc = "sleeping"
    /\ retry_count' = retry_count + 1
    /\ pc' = "entry"
    /\ UNCHANGED <<access_token, token_expires_at, session, endpoint, outcome, trace>>
    /\ UNCHANGED <<params, botVars>>

\* The answers of the auth endpoint.
RefreshStatuses == {200, 401, 500}
RefreshAnswers == [status : RefreshStatuses, access_token : Tokens, expires_in : ExpiresIn]

\* refresh_token on an answer of the auth endpoint: the new token and expiry, or
\* the exception raised with both left as they are.
refresh_token(ans, now, tok, exp) ==
    IF ans.status = 200
    THEN [raised |-> FALSE,
          access_token |-> ans.access_token,
          token_expires_at |-> <<now + ExpiresInOf(ans.expires_in)>>]
    ELSE [raised |-> TRUE, access_token |-> tok, token_expires_at |-> exp]

\* The await of refresh_token() in the 401 branch ends with the answer ans of
\* the auth endpoint, read at the time now.
RefreshAnswered(ans, now) ==
    /\ pc = "refreshing"
    /\ LET r == refresh_token(ans, now, access_token, token_expires_at)
       IN  /\ access_token' = r.access_token
           /\ token_expires_at' = r.token_expires_at
           /\ IF r.raised
              THEN /\ trace' = Append(trace, Ev("refresh_fail", ans.status, "", <<>>))
                   /\ outcome' = [kind |-> "RefreshFailed", endpoint |-> ""]
                   /\ pc' = "done"
                   /\ UNCHANGED retry_count
              ELSE /\ trace' = Append(trace, Ev("refresh_ok", ans.status, "", r.access_token))
                   /\ retry_count' = retry_count + 1
                   /\ pc' = "entry"
                   /\ UNCHANGED outcome
    /\ UNCHANGED <<session, endpoint>>
    /\ UNCHANGED <<params, botVars>>

\* The await of refresh_token() in the 401 branch ends because the POST to the
\* auth endpoint fails with a ClientError: caught by the handler of
\* _make_request, which sleeps and calls again.
RefreshTransportError ==
    /\ pc = "refreshing"
    /\ trace' = StartSleep(Append(trace, Ev("refresh_cerr", 0, "", <<>>)))
    /\ pc' = "sleeping"
    /\ UNCHANGED <<access_token, token_expires_at, retry_count, outcome>>
    /\ UNCHANGED <<session, endpoint>>
    /\ UNCHANGED <<params, botVars>>

\* The await of refresh_token() in the 401 branch ends.
RefreshDone ==
    \/ \E ans \in RefreshAnswers, now \in Times : RefreshAnswered(ans, now)
    \/ RefreshTransportError

\* The arguments of search_items: an optional one is None or <<value>>.
\* if category_id: ... -- the truth value of an optional int and of an optional str.
TruthyInt_Always(x) == TRUE

TruthyInt(x) == x # None /\ x[1] # 0
TruthyStr(x) == x # None /\ x[1] # ""

\* params[key] = x when the test holds.
WithParam(d, key, x, test) == IF test THEN d @@ (key :> x) ELSE d

\* The params dict search_items builds.
SearchParams(a) ==
    LET p0 == [page |-> a.page, per_page |-> a.per_page, sort_by |-> a.sort_by]
        p1 == WithParam(p0, "category_id", a.category_id, TruthyInt(a.category_id))
        p2 == WithParam(p1, "location_id", a.location_id, TruthyInt(a.location_id))
        p3 == WithParam(p2, "query", a.search_query, TruthyStr(a.search_query))
        p4 == WithParam(p3, "price_from", a.price_from, TruthyInt(a.price_from))
    IN  WithParam(p4, "price_to", a.price_to, TruthyInt(a.price_to))

\* search_items(...): _make_request('GET', '/items', params=params).
search_items(a) ==
    /\ pc \in {"idle", "done"}
    /\ pc' = "entry"
    /\ retry_count' = 0
    /\ endpoint' = "/items"
    /\ params' = SearchParams(a)
    /\ outcome' = NoOutcome
    /\ trace' = <<>>
    /\ UNCHANGED <<access_token, token_expires_at, session>>
    /\ UNCHANGED botVars

\* close(): closes the session when there is an open one.
close(s) == IF s.st = "open" THEN [s EXCEPT !.st = "closed", !.live = @ - 1] ELSE s

Close ==
    /\ session' = close(session)
    /\ UNCHANGED <<access_token, token_expires_at, pc, retry_count, endpoint, outcome, trace>>
    /\ UNCHANGED <<params, botVars>>

----------------------------------------------------------------------------
(* Python values of bot.py *)

\* A dict in its insertion order: a sequence of entries [k, v] with distinct keys.
Keys(d) == {d[i].k : i \in DOMAIN d}
Has(d, k) == k \in Keys(d)
Get(d, k) == d[CHOOSE i \in DOMAIN d : d[i].k = k].v
\* d[k] = v: in place for a key of d, at the end for a new key.
Put(d, k, v) ==
    IF Has(d, k)
    THEN LET i == CHOOSE j \in DOMAIN d : d[j].k = k
         IN  SubSeq(d, 1, i - 1) \o <<[k |-> k, v |-> v]>> \o SubSeq(d, i + 1, Len(d))
    ELSE Append(d, [k |-> k, v |-> v])
\* del d[k]
Del(d, k) == SelectSeq(d, LAMBDA e : e.k # k)

\* A text is the sequence of its characters.
Digits == {"0", "1", "2", "3", "4", "5", "6", "7", "8", "9"}
DigitVal(c) ==
    CASE c = "0" -> 0 [] c = "1" -> 1 [] c = "2" -> 2 [] c = "3" -> 3 [] c = "4" -> 4
      [] c = "5" -> 5 [] c = "6" -> 6 [] c = "7" -> 7 [] c = "8" -> 8 [] OTHER -> 9

\* str.isdigit(): not empty, and digits only.
isdigit(t) == Len(t) > 0 /\ \A i \in DOMAIN t : t[i] \in Digits

\* int(text), of a text of digits.
RECURSIVE int(_)
int(t) == IF Len(t) = 0 THEN 0 ELSE 10 * int(SubSeq(t, 1, Len(t) - 1)) + DigitVal(t[Len(t)])

\* re.match(r'^\d+$', text): digits up to the end, where $ stands for the end of
\* the text and also for the place before a newline that ends it.
MatchesDigits(t) ==
    \/ isdigit(t)
    \/ Len(t) > 1 /\ t[Len(t)] = "\n" /\ isdigit(SubSeq(t, 1, Len(t) - 1))

\* "|" in text
HasPipe(t) == \E i \in DOMAIN t : t[i] = "|"

\* What get_item_details gives: it raises, or returns a falsy value (no listing),
\* or the listing, with or without a 'price'.
Raised == [kind |-> "raise", price |-> <<>>]
Unavailable == [kind |-> "empty", price |-> <<>>]
Listing(p) == [kind |-> "item", price |-> <<p>>]
Unpriced == [kind |-> "item", price |-> <<>>]

\* A test that takes every answer for a listing.
Falsy_Never(r) == FALSE

\* not item_details
Falsy(r) == r.kind = "empty"

\* float(item_details.get('price', 0))
PriceOf(r) == IF r.price = <<>> THEN 0 ELSE r.price[1]

Abs(x) == IF x < 0 THEN -x ELSE x

\* A notification of the poll cycle that send_message delivered ("removed",
\* "changed"), or what the poll cycle logs of a failure: of send_message
\* ("failed"), of the fetch ("fetch_failed").
Msg(kind, user, item, old, new, dir) ==
    [kind |-> kind, user |-> user, item |-> item, old |-> old, new |-> new, dir |-> dir]
NoMsg == Msg("none", 0, <<>>, 0, 0, "")
\* A reply of the chat handler to the user: which one it is.
Reply(kind, user) == Msg(kind, user, <<>>, 0, 0, "")

\* The watch set of a user: user_items[u], empty for a user without an entry.
ItemsIn(ui, u) == IF Has(ui, u) THEN Get(ui, u) ELSE <<>>
ItemsOf(u) == ItemsIn(user_items, u)

----------------------------------------------------------------------------
(* AvitoBot.handle_message *)

\* A handle_message without the removal by number.
IsRemoveNumber_Never(text) == FALSE

\* The first test of handle_message: the text is taken as the number of an
\* item to remove.
IsRemoveNumber(text) == isdigit(text)

\* The third test of handle_message: the text is taken as the id of a listing.
IsItemId(text) == MatchesDigits(text)

\* The limit test, off by one.
AtLimit_Above(items) == Len(items) > MAX_ITEMS_PER_USER

\* len(user_items[user_id]) >= MAX_ITEMS_PER_USER
AtLimit(items) == Len(items) >= MAX_ITEMS_PER_USER

\* handle_message from its start to its first await on the marketplace (the
\* fetch of the add path) or to its end. Its replies are awaited too, but no
\* statement that touches user_items follows one: a reply is part of the step.
HandleMessage(u, text) ==
    /\ hpc = "idle"
    /\ IF IsRemoveNumber(text) THEN
            /\ IF Has(user_items, u) /\ Len(Get(user_items, u)) > 0
               THEN LET index == int(text) - 1
                        items == Get(user_items, u)
                    IN  IF 0 <= index /\ index < Len(items)
                        THEN /\ user_items' = Put(user_items, u, Del(items, items[index + 1].k))
                             /\ out' = Reply("removed", u)
                        ELSE /\ out' = Reply("bad_number", u)
                             /\ UNCHANGED user_items
               ELSE /\ out' = NoMsg
                    /\ UNCHANGED user_items
            /\ UNCHANGED <<hpc, h_user, h_text>>
       ELSE IF HasPipe(text) THEN
            \* the search: it reads the marketplace and replies; user_items is not touched
            /\ out' = Reply("search", u)
            /\ UNCHANGED <<user_items, hpc, h_user, h_text>>
       ELSE IF IsItemId(text) THEN
            LET ui == IF Has(user_items, u) THEN user_items ELSE Put(user_items, u, <<>>)
            IN  /\ user_items' = ui
                /\ IF AtLimit(Get(ui, u))
                   THEN /\ out' = Reply("limit", u)
                        /\ UNCHANGED <<hpc, h_user, h_text>>
                   ELSE /\ hpc' = "fetch"
                        /\ h_user' = u
                        /\ h_text' = text
                        /\ out' = NoMsg
       ELSE /\ out' = NoMsg
            /\ UNCHANGED <<user_items, hpc, h_user, h_text>>
    /\ UNCHANGED <<pollVars, faults>>
    /\ UNCHANGED apiVars

\* What the outside world's answer costs of the budget of unusual answers.
Usual == Listing(100)
Cost(r) == IF r = Usual THEN 0 ELSE 1

\* The add path after await self.api.get_item_details(text).
AddFetchDone(r) ==
    /\ hpc = "fetch"
    /\ CASE r.kind = "raise" ->
              /\ out' = Reply("error", h_user)
              /\ UNCHANGED user_items
         [] Falsy(r) ->
              /\ out' = Reply("not_found", h_user)
              /\ UNCHANGED user_items
         [] OTHER ->
              /\ user_items' = Put(user_items, h_user,
                                   Put(Get(user_items, h_user), h_text, PriceOf(r)))
              /\ out' = Reply("added", h_user)
    /\ hpc' = "idle"
    /\ h_user' = 0
    /\ h_text' = <<>>
    /\ faults' = faults + Cost(r)
    /\ UNCHANGED pollVars
    /\ UNCHANGED apiVars

----------------------------------------------------------------------------
(* AvitoBot.check_prices *)

PollAt(ppc_, upos, snap, ipos) == [ppc |-> ppc_, upos |-> upos, snap |-> snap, ipos |-> ipos]

\* The outer for, over user_items.items(): the iterator raises RuntimeError
\* when the dict has another size than when the iterator was made, ends after
\* the last entry, and else gives the next user, whose items are copied for the
\* inner for. A user without items is passed over.
RECURSIVE OuterNext(_, _, _)
OuterNext(ui, ulen, upos) ==
    IF Len(ui) # ulen THEN PollAt("aborted", 0, <<>>, 0)
    ELSE IF upos + 1 > Len(ui) THEN PollAt("idle", 0, <<>>, 0)
    ELSE IF Len(ui[upos + 1].v) > 0 THEN PollAt("fetch", upos + 1, ui[upos + 1].v, 1)
    ELSE OuterNext(ui, ulen, upos + 1)

\* The inner for, were the try around it and not in it: an exception ends the
\* user's items.
InnerNext_SkipUser(ui, ulen, upos, snap, ipos) == OuterNext(ui, ulen, upos)

\* The inner for, over items.copy().items(): the next entry of the copy, or on
\* to the next user.
InnerNext(ui, ulen, upos, snap, ipos) ==
    IF ipos + 1 <= Len(snap) THEN PollAt("fetch", upos, snap, ipos + 1)
    ELSE OuterNext(ui, ulen, upos)

\* The threshold test without the abs().
NotifyNeeded_Signed(cur, last) == (cur - last) * 100 >= PRICE_CHANGE_THRESHOLD * last

\* abs(price_change) >= PRICE_CHANGE_THRESHOLD, for
\* price_change = ((current_price - last_price) / last_price) * 100, last_price # 0
NotifyNeeded(cur, last) == Abs(cur - last) * 100 >= PRICE_CHANGE_THRESHOLD * Abs(last)

\* "выросла" if current_price > last_price else "снизилась"
Direction(cur, last) == IF cur > last THEN "increased" ELSE "decreased"

\* A poll cycle that forgets the new price.
StorePrice_Forget(items, item_id, current_price) == items

\* items[item_id] = current_price
StorePrice(items, item_id, current_price) == Put(items, item_id, current_price)

\* The loops go on to the next entry; ui is user_items after this step.
Continue(ui) ==
    LET n == InnerNext(ui, p_ulen, p_upos, p_snap, p_ipos)
    IN  /\ ppc' = n.ppc
        /\ p_upos' = n.upos
        /\ p_snap' = n.snap
        /\ p_ipos' = n.ipos
        /\ p_ulen' = IF n.ppc \in {"idle", "aborted"} THEN 0 ELSE p_ulen
        /\ p_price' = 0

\* The job queue runs check_prices: up to the await of the first fetch.
PollStart ==
    /\ ppc \in {"idle", "aborted"}
    /\ LET n == OuterNext(user_items, Len(user_items), 0)
       IN  /\ ppc' = n.ppc
           /\ p_upos' = n.upos
           /\ p_snap' = n.snap
           /\ p_ipos' = n.ipos
           /\ p_ulen' = IF n.ppc = "idle" THEN 0 ELSE Len(user_items)
           /\ p_price' = 0
    /\ out' = NoMsg
    /\ UNCHANGED <<user_items, hpc, h_user, h_text, faults>>
    /\ UNCHANGED apiVars

\* The body of the inner for after await self.api.get_item_details(item_id), up
\* to the next await.
PollFetchDone(r) ==
    /\ ppc = "fetch"
    /\ LET user_id == user_items[p_upos].k
           items == user_items[p_upos].v
           item_id == p_snap[p_ipos].k
           last_price == p_snap[p_ipos].v
           current_price == PriceOf(r)
       IN  CASE r.kind = "raise" ->
                  \* except Exception: logged (logger.error names the item)
                  /\ Continue(user_items)
                  /\ out' = Msg("fetch_failed", user_id, item_id, 0, 0, "")
                  /\ UNCHANGED user_items
             [] Falsy(r) ->
                  IF Has(items, item_id)
                  THEN /\ user_items' = Put(user_items, user_id, Del(items, item_id))
                       /\ ppc' = "send_removed"
                       /\ out' = NoMsg
                       /\ UNCHANGED <<p_ulen, p_upos, p_snap, p_ipos, p_price>>
                  ELSE \* del items[item_id] raises KeyError: logged
                       /\ Continue(user_items)
                       /\ out' = NoMsg
                       /\ UNCHANGED user_items
             [] OTHER ->
                  IF current_price # last_price /\ last_price # 0
                     /\ NotifyNeeded(current_price, last_price)
                  THEN /\ ppc' = "send_changed"
                       /\ p_price' = current_price
                       /\ out' = NoMsg
                       /\ UNCHANGED <<user_items, p_ulen, p_upos, p_snap, p_ipos>>
                  ELSE \* no change, a change below the threshold, or
                       \* ZeroDivisionError for last_price = 0: logged
                       /\ Continue(user_items)
                       /\ out' = NoMsg
                       /\ UNCHANGED user_items
    /\ faults' = faults + Cost(r)
    /\ UNCHANGED <<hpc, h_user, h_text>>
    /\ UNCHANGED apiVars

\* await context.bot.send_message(...) is over: it returned (ok) or raised.
PollSendDone(ok) ==
    /\ ppc \in {"send_removed", "send_changed"}
    /\ LET user_id == user_items[p_upos].k
           items == user_items[p_upos].v
           item_id == p_snap[p_ipos].k
           last_price == p_snap[p_ipos].v
       IN  IF ~ok
           THEN \* except Exception: logged
                /\ Continue(user_items)
                /\ out' = Msg("failed", user_id, item_id, 0, 0, "")
                /\ UNCHANGED user_items
           ELSE IF ppc = "send_removed"
           THEN \* continue
                /\ Continue(user_items)
                /\ out' = Msg("removed", user_id, item_id, 0, 0, "")
                /\ UNCHANGED user_items
           ELSE \* items[item_id] = current_price
                /\ user_items' = Put(user_items, user_id, StorePrice(items, item_id, p_price))
                /\ Continue(user_items')
                /\ out' = Msg("changed", user_id, item_id, last_price, p_price,
                              Direction(p_price, last_price))
    /\ faults' = faults + (IF ok THEN 0 ELSE 1)
    /\ UNCHANGED <<hpc, h_user, h_text>>
    /\ UNCHANGED apiVars

----------------------------------------------------------------------------

Init ==
    /\ access_token \in InitTokens
    /\ token_expires_at = None
    /\ session = NoSession
    /\ pc = "idle"
    /\ retry_count = 0
    /\ endpoint = ""
    /\ params = NoParams
    /\ outcome = NoOutcome
    /\ trace = <<>>
    /\ user_items = <<>>
    /\ hpc = "idle"
    /\ h_user = 0
    /\ h_text = <<>>
    /\ ppc = "idle"
    /\ p_ulen = 0
    /\ p_upos = 0
    /\ p_snap = <<>>
    /\ p_ipos = 0
    /\ p_price = 0
    /\ out = NoMsg
    /\ faults = 0

\* The API client with the token the operator configured.
InitAPI == Init /\ access_token = <<1>>

\* The request executor alone: logical requests one after the other, and close()
\* at any moment.
NextAPI ==
    \/ \E ep \in Endpoints : Call(ep)
    \/ Entry
    \/ Response
    \/ SleepDone
    \/ RefreshDone
    \/ Close

SpecAPI == Init /\ [][NextAPI]_vars

\* The searches a caller may ask for: a criterion is left out (None), set to a
\* value Python takes for false (0, ""), or set to another value; the sorting
\* is the default or by price, the paging the default.
OptInts(v) == {None, <<0>>, <<v>>}
SearchArgs ==
    [category_id : OptInts(7), location_id : {None, <<3>>},
     search_query : {None, <<"">>, <<"iPhone">>},
     price_from : OptInts(50000), price_to : {None, <<80000>>},
     sort_by : {"date", "price"}, page : {1}, per_page : {50}]

\* Searches, one after the other, each up to its first answer.
NextSearch ==
    \/ \E a \in SearchArgs : search_items(a)
    \/ Entry
    \/ Response

SpecSearch == InitAPI /\ [][NextSearch]_vars

\* The chat users and what they send: numbers, listing ids that reach the add
\* path (digits and a closing newline), a search, and a text that is none of these.
\* User 1 knows two listings, user 2 one.
Users == {1, 2}
Texts == {<<"0">>, <<"1">>, <<"2">>, <<"3">>,
          <<"1", "\n">>, <<"2", "\n">>,
          <<"a", "|", "b">>, <<"a">>}
TextsOf(u) == IF u = 1 THEN Texts ELSE Texts \ {<<"2", "\n">>}

\* What the marketplace may answer to get_item_details.
Prices == {100, 103, 106}
FetchResults == {Raised, Unavailable, Unpriced} \cup {Listing(p) : p \in Prices}

\* The bot: the chat handler (one update at a time) and the poll cycle of the
\* job queue, interleaved at their awaits.
Next ==
    \/ \E u \in Users : \E text \in TextsOf(u) : HandleMessage(u, text)
    \/ \E r \in FetchResults : faults + Cost(r) <= MaxFaults /\ AddFetchDone(r)
    \/ PollStart
    \/ \E r \in FetchResults : faults + Cost(r) <= MaxFaults /\ PollFetchDone(r)
    \/ \E ok \in BOOLEAN : (ok \/ faults < MaxFaults) /\ PollSendDone(ok)

\* A user who fills the watch set: the text of listing id n, as it reaches the
\* add path.
DigitChar(n) ==
    CASE n = 0 -> "0" [] n = 1 -> "1" [] n = 2 -> "2" [] n = 3 -> "3" [] n = 4 -> "4"
      [] n = 5 -> "5" [] n = 6 -> "6" [] n = 7 -> "7" [] n = 8 -> "8" [] OTHER -> "9"
RECURSIVE Str(_)
Str(n) == IF n < 10 THEN <<DigitChar(n)>> ELSE Str(n \div 10) \o <<DigitChar(n % 10)>>
IdText(n) == Str(n) \o <<"\n">>
IdNumber(text) == int(SubSeq(text, 1, Len(text) - 1))

\* That user adds the listings 1, 2, ... one after the other, each id one above
\* the highest they track, and sends the number 1 (remove the first item) only
\* when the watch set is full.
CapUsers == {1}
HighestId(items) ==
    IF items = <<>> THEN 0
    ELSE CHOOSE n \in {IdNumber(k) : k \in Keys(items)} :
            \A k \in Keys(items) : IdNumber(k) <= n
CapTexts(u) ==
    {IdText(n) : n \in {HighestId(ItemsOf(u)) + 1} \cap (1..MaxCapId)}
    \cup (IF AtLimit(ItemsOf(u)) THEN {<<"1">>} ELSE {})

\* The marketplace answers with the listing, at its usual price or at a higher
\* one, or with no listing.
CapFetchResults == {Usual, Listing(106), Unavailable}

NextCap ==
    \/ \E u \in CapUsers : \E text \in CapTexts(u) : HandleMessage(u, text)
    \/ \E r \in CapFetchResults : faults + Cost(r) <= MaxCapFaults /\ AddFetchDone(r)
    \/ PollStart
    \/ \E r \in CapFetchResults : faults + Cost(r) <= MaxCapFaults /\ PollFetchDone(r)
    \/ \E ok \in BOOLEAN : (ok \/ faults < MaxCapFaults) /\ PollSendDone(ok)

\* Three users with one listing each: a user's first add makes the registry
\* grow, possibly during a poll cycle; the number 1 removes the listing.
JoinUsers == {1, 2, 3}
JoinTexts == {<<"1", "\n">>, <<"1">>}
JoinFetchResults == {Usual, Listing(106), Raised}

NextJoin ==
    \/ \E u \in JoinUsers : \E text \in JoinTexts : HandleMessage(u, text)
    \/ \E r \in JoinFetchResults : faults + Cost(r) <= MaxJoinFaults /\ AddFetchDone(r)
    \/ PollStart
    \/ \E r \in JoinFetchResults : faults + Cost(r) <= MaxJoinFaults /\ PollFetchDone(r)
    \/ \E ok \in BOOLEAN : (ok \/ faults < MaxJoinFaults) /\ PollSendDone(ok)

\* The bot is looked at with the token of the API client fixed.
InitBot == Init /\ access_token = NoToken

Spec == InitBot /\ [][Next]_vars

SpecCap == InitBot /\ [][NextCap]_vars

SpecJoin == InitBot /\ [][NextJoin]_vars

----------------------------------------------------------------------------
(* The request executor: claims C1 - C5 *)

Idx(tr) == DOMAIN tr
Count(tr, e) == Cardinality({i \in Idx(tr) : tr[i].e = e})
Is401(ev) == ev.e = "resp" /\ ev.n = 401
Is5xx(ev) == ev.e = "resp" /\ ev.n >= 500
IsOther4xx(ev) == ev.e = "resp" /\ ev.n >= 400 /\ ev.n <= 499 /\ ev.n # 401
\* The send that the event at i belongs to.
SendBefore(tr, i) == CHOOSE j \in Idx(tr) :
    /\ j < i /\ tr[j].e = "send"
    /\ \A k \in Idx(tr) : (k < i /\ tr[k].e = "send") => k <= j
\* The attempts of the trace, and what each one got.
SendIdx(tr) == {i \in Idx(tr) : tr[i].e = "send"}
Answered(tr, i) == i + 1 \in Idx(tr)

\* The conditions the claim counts as retryable: 401, status >= 500, transport failure.
ClaimedRetryable(ev) == ev.e = "cerr" \/ Is401(ev) \/ Is5xx(ev)
\* The conditions the code retries on: those, and an answer whose body
\* response.json() refuses with ContentTypeError.
CodeRetryable(ev) == ClaimedRetryable(ev) \/ (ev.e = "resp" /\ ev.b = "ctype")

\* C1 as stated: at most MAX_RETRIES requests are sent for a logical request, and
\* it ends in a terminal success, an API error or, when all MAX_RETRIES attempts
\* ended in 401, status >= 500 or a transport failure, the retry-exhausted error
\* naming the endpoint.
C1_Original ==
    /\ Count(trace, "send") <= MAX_RETRIES
    /\ pc = "done" =>
        /\ outcome.kind \in {"Success", "APIError", "RetryExhausted"}
        /\ outcome.kind = "RetryExhausted" =>
            /\ outcome.endpoint = endpoint
            /\ Count(trace, "send") = MAX_RETRIES
            /\ \A i \in SendIdx(trace) : Answered(trace, i) /\ ClaimedRetryable(trace[i + 1])

\* C1 as amended: at most MAX_RETRIES requests are sent for a logical request, and
\* it ends in a terminal success, an API error, a failed token refresh, an
\* uncaught timeout or JSON decoding error, or the retry-exhausted error naming
\* the endpoint; the last one exactly after MAX_RETRIES attempts that each ended
\* in a condition the code retries on.
C1_BoundedRetries ==
    /\ Count(trace, "send") <= MAX_RETRIES
    /\ pc = "done" =>
        /\ outcome.kind \in {"Success", "APIError", "RetryExhausted",
                             "RefreshFailed", "TimeoutError", "ValueError"}
        /\ outcome.kind = "RetryExhausted" =>
            /\ outcome.endpoint = endpoint
            /\ Count(trace, "send") = MAX_RETRIES
            /\ \A i \in SendIdx(trace) : Answered(trace, i) /\ CodeRetryable(trace[i + 1])
        /\ outcome.kind # "RetryExhausted" => outcome.endpoint = ""

\* A logical request that used all its attempts and ended in the retry-exhausted error.
C1_Witness ==
    /\ pc = "done"
    /\ outcome.kind = "RetryExhausted"
    /\ Count(trace, "send") = MAX_RETRIES
    /\ \E i \in Idx(trace) : Is5xx(trace[i])
    /\ \E i \in Idx(trace) : Is401(trace[i])

\* C2: the attempt that follows a 401 and a successful refresh is sent with the
\* refreshed token in its Authorization header.
C2_RefreshedTokenSent ==
    \A i \in Idx(trace) :
        (trace[i].e = "send" /\ i > 1 /\ trace[i - 1].e = "refresh_ok")
            => trace[i].auth = _get_headers(trace[i - 1].auth).Authorization

\* C3: in a logical request every 401 answer is followed at once by one refresh,
\* every refresh follows a 401 answer, and so there are as many refreshes as
\* 401 answers.
C3_RefreshPer401 ==
    /\ Count(trace, "refresh") = Cardinality({i \in Idx(trace) : Is401(trace[i])})
    /\ \A i \in Idx(trace) :
        /\ Is401(trace[i]) =>
            /\ i + 1 \in Idx(trace) /\ trace[i + 1].e = "refresh"
            /\ \A j \in Idx(trace) :
                 (j > i + 1 /\ trace[j].e = "refresh") =>
                     \E k \in Idx(trace) : i < k /\ k < j /\ trace[k].e = "send"
        /\ trace[i].e = "refresh" => (i > 1 /\ Is401(trace[i - 1]))
        /\ trace[i].e \in {"refresh_ok", "refresh_fail", "refresh_cerr"}
            => (i > 1 /\ trace[i - 1].e = "refresh")

\* A finished logical request with two 401 answers and a 5xx answer.
C3_Witness ==
    /\ pc = "done"
    /\ Cardinality({i \in Idx(trace) : Is401(trace[i])}) = 2
    /\ Count(trace, "refresh") = 2
    /\ \E i \in Idx(trace) : Is5xx(trace[i])

\* C4: an answer with status 400..499 other than 401 ends the logical request at
\* once with an API error: nothing is sent, slept or refreshed after it.
C4_ClientErrorNotRetried ==
    \A i \in Idx(trace) :
        IsOther4xx(trace[i]) =>
            /\ i = Len(trace)
            /\ pc = "done"
            /\ outcome.kind = "APIError"

\* C5: every answer with status >= 500 is followed by one sleep of RETRY_DELAY,
\* and what follows that sleep, if anything, is the next attempt, sent with the
\* attempt count one higher.
C5_SleepAfter5xx ==
    \A i \in Idx(trace) :
        Is5xx(trace[i]) =>
            /\ i + 1 \in Idx(trace)
            /\ trace[i + 1].e = "sleep" /\ trace[i + 1].n = RETRY_DELAY
            /\ i + 2 \in Idx(trace) =>
                /\ trace[i + 2].e = "send"
                /\ trace[i + 2].n = trace[SendBefore(trace, i)].n + 1

\* An attempt was sent after a 5xx answer and the sleep.
C5_Witness ==
    \E i \in Idx(trace) :
        /\ Is5xx(trace[i])
        /\ i + 2 \in Idx(trace)
        /\ trace[i + 2].e = "send"

----------------------------------------------------------------------------
(* The watch sets: claims C6 - C10 *)

\* The entry the poll cycle is at: its user, its item and the price it was
\* copied with.
EntryUser == user_items[p_upos].k
EntryItem == p_snap[p_ipos].k
EntryLast == p_snap[p_ipos].v
\* The texts that reach the add path of handle_message.
AddTexts == {IdText(n) : n \in 1..MaxCapId}

\* C6: every user's watch set holds at most MAX_ITEMS_PER_USER items, in every
\* reachable state.
C6_WithinLimit ==
    \A i \in DOMAIN user_items : Len(user_items[i].v) <= MAX_ITEMS_PER_USER

\* C7: a message that is only decimal digits, from a user below the limit,
\* starts the fetch of that listing, and when the fetch returns a listing the
\* listing is tracked by that user with the fetched price.
C7_DigitsAreAdded ==
    [][/\ \A u \in Users : \A t \in Texts :
            (isdigit(t) /\ ~(Len(ItemsOf(u)) >= MAX_ITEMS_PER_USER) /\ HandleMessage(u, t))
                => (hpc' = "fetch" /\ h_user' = u /\ h_text' = t)
       /\ \A r \in FetchResults :
            (r.kind = "item" /\ AddFetchDone(r))
                => /\ Has(ItemsIn(user_items', h_user), h_text)
                   /\ Get(ItemsIn(user_items', h_user), h_text) = PriceOf(r)]_vars

\* C8: the add path, run for a user whose watch set holds MAX_ITEMS_PER_USER
\* items (or more), changes no watch set and starts no fetch: the user gets the
\* reply about the limit.
C8_AddRejectedAtLimit ==
    [][\A u \in CapUsers : \A t \in AddTexts :
            (Len(ItemsOf(u)) >= MAX_ITEMS_PER_USER /\ HandleMessage(u, t))
                => /\ user_items' = user_items
                   /\ hpc' = "idle" /\ h_user' = 0 /\ h_text' = <<>>
                   /\ out' = Reply("limit", u)]_vars

\* The reply about the limit went to a user with a full watch set.
C8_Witness ==
    /\ out.kind = "limit"
    /\ Len(ItemsOf(out.user)) = MAX_ITEMS_PER_USER
    /\ hpc = "idle"

\* The threshold of the claim: abs((cur - last) / last * 100) >= 5, for last > 0.
ClaimedChange(cur, last) ==
    \/ (cur - last) * 100 >= 5 * last
    \/ (last - cur) * 100 >= 5 * last
ClaimedDirection(cur, last) == IF cur > last THEN "increased" ELSE "decreased"

\* What C9 says of the fetch: for an entry with last_price # 0 whose fetch
\* returns a listing at price cur, the price-change message (to that user, with
\* the direction) is sent if and only if the change reaches the threshold, and
\* with no message the stored prices are left as they are.
C9_AtFetch ==
    \A r \in FetchResults :
        (r.kind = "item" /\ ppc = "fetch" /\ EntryLast # 0 /\ PollFetchDone(r))
            => /\ (ppc' = "send_changed") <=> ClaimedChange(PriceOf(r), EntryLast)
               /\ ppc' = "send_changed" => p_price' = PriceOf(r)
               /\ ppc' # "send_changed" => out' = NoMsg
               /\ user_items' = user_items

\* C9 as stated: the stored price becomes cur exactly when the notification is
\* emitted, so once the message is being sent the entry ends with cur stored.
C9_Original ==
    [][/\ C9_AtFetch
       /\ \A ok \in BOOLEAN :
            (ppc = "send_changed" /\ PollSendDone(ok))
                => /\ Has(ItemsIn(user_items', EntryUser), EntryItem)
                   /\ Get(ItemsIn(user_items', EntryUser), EntryItem) = p_price]_vars

\* C9 as amended: the message is sent if and only if the change reaches the
\* threshold; the stored price becomes cur exactly when that send succeeded
\* (the message then names the user, the item, both prices and the direction);
\* when the send fails or no message is due the poll cycle writes no price.
C9_PriceChange ==
    [][/\ C9_AtFetch
       /\ (ppc = "send_changed" /\ PollSendDone(TRUE))
            => /\ Has(ItemsIn(user_items', EntryUser), EntryItem)
               /\ Get(ItemsIn(user_items', EntryUser), EntryItem) = p_price
               /\ out' = Msg("changed", EntryUser, EntryItem, EntryLast, p_price,
                             ClaimedDirection(p_price, EntryLast))
       /\ (ppc = "send_changed" /\ PollSendDone(FALSE))
            => /\ user_items' = user_items
               /\ out'.kind = "failed"]_vars

\* A fall of the price by more than the threshold was notified and stored.
C9_Witness ==
    /\ out.kind = "changed"
    /\ out.dir = "decreased"
    /\ out.old = 106 /\ out.new = 100
    /\ Has(ItemsOf(out.user), out.item)
    /\ Get(ItemsOf(out.user), out.item) = 100

----------------------------------------------------------------------------
(* The poll cycle and the API client: claims C11 - C20 *)

\* The users after the one the poll cycle is at, of those in the registry when
\* the cycle started, who have items.
LaterUsers == {j \in (p_upos + 1)..p_ulen : Len(user_items[j].v) > 0}
NextUser == CHOOSE j \in LaterUsers : \A k \in LaterUsers : j <= k
\* The poll cycle goes on from the entry it is at: to the next entry of the
\* user's copied items, and after the last one to the first item of the next
\* user who has items, or to its end when there is no such user.
GoesOn ==
    IF p_ipos < Len(p_snap)
    THEN /\ ppc' = "fetch" /\ p_upos' = p_upos /\ p_snap' = p_snap /\ p_ipos' = p_ipos + 1
    ELSE IF LaterUsers # {}
    THEN /\ ppc' = "fetch" /\ p_upos' = NextUser
         /\ p_snap' = user_items[NextUser].v /\ p_ipos' = 1
    ELSE ppc' = "idle"

C12_RefreshToken ==
    [][\A ans \in RefreshAnswers, now \in Times :
        RefreshAnswered(ans, now) =>
            IF ans.status = 200
            THEN /\ access_token' = ans.access_token
                 /\ token_expires_at'
                      = <<now + (IF ans.expires_in = <<>> THEN 3600 ELSE ans.expires_in[1])>>
                 /\ outcome' = outcome
                 /\ pc' = "entry"
            ELSE /\ access_token' = access_token
                 /\ token_expires_at' = token_expires_at
                 /\ outcome'.kind = "RefreshFailed"
                 /\ pc' = "done"]_vars

\* A refresh stored token 2 with the expiry of an answer without expires_in,
\* and a later refresh got a status other than 200 and left both.
C12_Witness ==
    /\ pc = "done"
    /\ outcome.kind = "RefreshFailed"
    /\ trace[Len(trace)].e = "refresh_fail"
    /\ access_token = <<2>>
    /\ token_expires_at = <<100 + 3600>>

\* C13: every transport failure of an attempt, be it a connection error or a
\* timeout, is followed by one sleep of RETRY_DELAY, and what follows that
\* sleep, if anything, is the next attempt, sent with the attempt count one higher.
C13_TransportFailureRetried ==
    \A i \in Idx(trace) :
        trace[i].e \in {"cerr", "timeout"} =>
            /\ i + 1 \in Idx(trace)
            /\ trace[i + 1].e = "sleep" /\ trace[i + 1].n = RETRY_DELAY
            /\ i + 2 \in Idx(trace) =>
                /\ trace[i + 2].e = "send"
                /\ trace[i + 2].n = trace[SendBefore(trace, i)].n + 1

\* The criteria of a search, by the key each one is sent under.
Criterion(a, key) ==
    CASE key = "category_id" -> a.category_id
      [] key = "location_id" -> a.location_id
      [] key = "query" -> a.search_query
      [] key = "price_from" -> a.price_from
      [] OTHER -> a.price_to
CriteriaKeys == {"category_id", "location_id", "query", "price_from", "price_to"}

\* C14: the search request always carries page, per_page and sort_by, as given
\* (1, 50, 'date' by default); it carries a criterion only when that criterion
\* was set, and then with its value; it carries nothing else; so a search with
\* only the query set carries none of category_id, location_id, price_from, price_to.
C14_SearchParams ==
    [][\A a \in SearchArgs :
        search_items(a) =>
            /\ endpoint' = "/items"
            /\ {"page", "per_page", "sort_by"} \subseteq DOMAIN params'
            /\ params'.page = a.page /\ params'.per_page = a.per_page
            /\ params'.sort_by = a.sort_by
            /\ DOMAIN params' \subseteq {"page", "per_page", "sort_by"} \cup CriteriaKeys
            /\ \A key \in CriteriaKeys :
                 key \in DOMAIN params' =>
                    /\ Criterion(a, key) # None
                    /\ params'[key] = Criterion(a, key)
            /\ (\A key \in CriteriaKeys \ {"query"} : Criterion(a, key) = None)
                 => DOMAIN params' \cap (CriteriaKeys \ {"query"}) = {}]_vars

\* A search with only the query set was sent: the defaults and the query, no more.
C14_Witness ==
    /\ pc = "inflight"
    /\ endpoint = "/items"
    /\ DOMAIN params = {"page", "per_page", "sort_by", "query"}
    /\ params.page = 1 /\ params.per_page = 50 /\ params.sort_by = "date"
    /\ params.query = <<"iPhone">>

\* C15: an item that the chat handler removed from a user's watch set does not
\* come back unless the user adds it again, also when it was removed while a
\* poll cycle that had copied it was suspended at its fetch or at its send: an
\* item that is not in a user's watch set enters it by no step but the end of
\* that user's add of that item.
C15_RemovedStaysRemoved ==
    [][\A u \in Users : \A i \in Texts :
        (~Has(ItemsOf(u), i) /\ Has(ItemsIn(user_items', u), i))
            => (hpc = "fetch" /\ h_user = u /\ h_text = i /\ hpc' = "idle")]_vars

\* The poll cycle is done with the entry it was at: it is no longer at that
\* entry's fetch or send.
EntryDone ==
    /\ ppc \in {"fetch", "send_removed", "send_changed"}
    /\ ~(ppc' \in {"send_removed", "send_changed"})
    /\ <<ppc', p_upos', p_ipos'>> # <<ppc, p_upos, p_ipos>>
\* Entries that were registered when the cycle started are still to be processed.
EntriesRemain == p_ipos < Len(p_snap) \/ LaterUsers # {}

\* C16: a poll cycle processes every entry that was registered when it started
\* and is not removed during it, whatever the chat handler does meanwhile (a
\* removal, an add, the first add of a new user): whenever the cycle is done
\* with an entry and such entries remain, it goes on with the next of them; it
\* is not aborted and skips no remaining user.
C16_CycleCompletes ==
    [][(EntryDone /\ EntriesRemain) => GoesOn]_vars

\* The price stored for item i of user u in the registry ui is 0.
StoredZero(ui, u, i) == Has(ItemsIn(ui, u), i) /\ Get(ItemsIn(ui, u), i) = 0

\* C17: for a tracked entry whose stored price is 0, a poll cycle that fetches
\* a price other than 0 sends no notification, writes nothing and goes on with
\* the remaining items; so a stored price of 0 stays 0 as long as the entry is
\* tracked, unless the user adds the item again.
C17_ZeroPriceStays ==
    [][/\ \A r \in FetchResults :
            (r.kind = "item" /\ PriceOf(r) # 0 /\ ppc = "fetch"
             /\ StoredZero(user_items, EntryUser, EntryItem) /\ PollFetchDone(r))
                => /\ ppc' # "send_changed"
                   /\ out' = NoMsg
                   /\ user_items' = user_items
                   /\ (p_ipos < Len(p_snap) \/ Len(user_items) = p_ulen) => GoesOn
       /\ \A u \in Users : \A i \in Texts :
            (StoredZero(user_items, u, i) /\ Has(ItemsIn(user_items', u), i)
             /\ ~StoredZero(user_items', u, i))
                => (hpc = "fetch" /\ h_user = u /\ h_text = i /\ hpc' = "idle")]_vars

\* C18: the transport session is created at the first request and not before;
\* at most one session is open at any time; every request is sent on an open
\* session, the one there is or, when there is none or it is closed, a new one;
\* close() can be called in every state, closes an open session and changes
\* nothing when no session was opened or the session is closed.
C18_SessionLifecycle ==
    /\ [](/\ session.live <= 1
          /\ (session.live = 1) <=> (session.st = "open")
          /\ (session.st = "none") => (pc \in {"idle", "entry"} /\ trace = <<>>)
          /\ ENABLED Close)
    /\ [][/\ (pc = "entry" /\ pc' = "inflight") =>
               (/\ session'.st = "open"
                /\ (session.st = "open") => (session' = session)
                /\ trace'[Len(trace')].e = "send")
          /\ (pc' # "inflight") => (session'.st \in {session.st, "closed"})
          /\ (Close /\ session.st # "open") => UNCHANGED vars
          /\ (Close /\ session.st = "open") => (session'.st = "closed")]_vars

\* A request is sent on a session built after a refresh: the first session was
\* closed and a new one made for this request.
C18_Witness ==
    /\ pc = "inflight"
    /\ session.st = "open" /\ session.live = 1
    /\ session.headers.Authorization = <<"Bearer", 2>>

\* The price stored for item i of user u in the registry ui, <<>> when the
\* item is not tracked.
Stored(ui, u, i) == IF Has(ItemsIn(ui, u), i) THEN <<Get(ItemsIn(ui, u), i)>> ELSE <<>>

\* C19: a poll cycle writes a stored price only when the price-change
\* notification for it was sent successfully, and then it stores the fetched
\* price; when the send fails the stored prices stay as they are; a cycle copies
\* the stored prices of a user when it comes to that user, so the next cycle
\* that fetches the same price notifies the change again after a failed send
\* (the change from the copied price reaches the threshold) and sends nothing
\* after a stored one (the fetched price is the copied one).
C19_StoredAfterSend ==
    [][/\ (user_items' # user_items) => \A u \in Users : \A i \in Texts :
            (Stored(user_items, u, i) # <<>> /\ Stored(user_items', u, i) # <<>>
             /\ Stored(user_items', u, i) # Stored(user_items, u, i))
                => \/ (hpc = "fetch" /\ h_user = u /\ h_text = i /\ hpc' = "idle")
                   \/ /\ ppc = "send_changed"
                      /\ EntryUser = u /\ EntryItem = i
                      /\ out'.kind = "changed" /\ out'.user = u /\ out'.item = i
                      /\ <<out'.new>> = Stored(user_items', u, i)
       /\ (ppc = "send_changed" /\ PollSendDone(FALSE))
            => (user_items' = user_items /\ out'.kind = "failed")
       /\ (ppc = "send_changed" /\ PollSendDone(TRUE))
            => (Stored(user_items', EntryUser, EntryItem) = <<p_price>>)
       /\ (ppc' = "fetch" /\ (ppc \in {"idle", "aborted"} \/ p_upos' # p_upos))
            => (p_snap' = user_items'[p_upos'].v)
       /\ \A r \in FetchResults :
            (ppc = "fetch" /\ r.kind = "item" /\ EntryLast # 0 /\ PollFetchDone(r))
                => /\ (PriceOf(r) = EntryLast) => (ppc' # "send_changed" /\ out' = NoMsg)
                   /\ ClaimedChange(PriceOf(r), EntryLast)
                        => (ppc' = "send_changed" /\ p_price' = PriceOf(r))]_vars

\* The send of a price-change notification failed, the cycle is over and the
\* old price is still the stored one.
C19_Witness ==
    /\ out.kind = "failed"
    /\ ppc = "idle"
    /\ Stored(user_items, out.user, out.item) = <<100>>

\* The numbers a user sends.
Numbers == 0..3
\* The list without its k-th entry.
WithoutKth(items, k) == SubSeq(items, 1, k - 1) \o SubSeq(items, k + 1, Len(items))

\* C20: when a user with a watch set of n > 0 items sends the number k, then
\* for 1 <= k <= n the k-th item in the order of the list is removed, the other
\* items of that user keep their order and prices and no other user's items
\* change; for k = 0 and for k > n no item of any user changes.
C20_RemoveKth ==
    [][(hpc = "idle" /\ ppc' = ppc) => \A u \in Users : \A k \in Numbers :
        (Len(ItemsOf(u)) > 0 /\ HandleMessage(u, Str(k))) =>
            IF 1 <= k /\ k <= Len(ItemsOf(u))
            THEN /\ ItemsIn(user_items', u) = WithoutKth(ItemsOf(u), k)
                 /\ ~Has(ItemsIn(user_items', u), ItemsOf(u)[k].k)
                 /\ Len(user_items') = Len(user_items)
                 /\ \A j \in DOMAIN user_items :
                      /\ user_items'[j].k = user_items[j].k
                      /\ (user_items[j].k # u) => (user_items'[j] = user_items[j])
                 /\ out' = Reply("removed", u)
            ELSE /\ user_items' = user_items
                 /\ out' = Reply("bad_number", u)]_vars

\* User 1 removed one of two items by its number while user 2 tracks an item.
C20_Witness ==
    /\ out = Reply("removed", 1)
    /\ Len(ItemsOf(1)) = 1
    /\ ItemsOf(1)[1].k = <<"1", "\n">>
    /\ Len(ItemsOf(2)) = 1

\* An attempt that failed with status >= 500 or with a connection error (an
\* aiohttp.ClientError of the transport).
FailedAttempt(ev) == Is5xx(ev) \/ ev.e = "cerr"
\* The logical request is over, and each of its MAX_RETRIES attempts failed so.
AllAttemptsFailed ==
    /\ pc = "done"
    /\ Count(trace, "send") = MAX_RETRIES
    /\ \A i \in SendIdx(trace) : Answered(trace, i) /\ FailedAttempt(trace[i + 1])

\* C21 as stated: the executor sleeps only between two attempts: in a logical
\* request whose MAX_RETRIES attempts all failed with status >= 500 or a
\* transport failure there are MAX_RETRIES - 1 sleeps, and no sleep comes after
\* the last attempt, before the retry-exhausted error.
C21_Original ==
    /\ AllAttemptsFailed =>
        /\ outcome.kind = "RetryExhausted"
        /\ Count(trace, "sleep") = MAX_RETRIES - 1
        /\ trace[Len(trace)].e # "sleep"
    /\ \A i \in Idx(trace) :
        (trace[i].e = "sleep" /\ pc = "done") => (i + 1 \in Idx(trace) /\ trace[i + 1].e = "send")

\* C21 as amended: the executor sleeps RETRY_DELAY after every attempt that
\* failed with status >= 500 or a connection error, the last one too: in a
\* logical request whose MAX_RETRIES attempts all failed so there are
\* MAX_RETRIES sleeps, one right after each attempt's failure, and the
\* retry-exhausted error is raised after the last sleep.
C21_SleepAfterEveryFailure ==
    /\ AllAttemptsFailed =>
        /\ outcome.kind = "RetryExhausted" /\ outcome.endpoint = endpoint
        /\ Count(trace, "sleep") = MAX_RETRIES
        /\ trace[Len(trace)].e = "sleep"
        /\ \A i \in SendIdx(trace) :
             /\ i + 2 \in Idx(trace)
             /\ trace[i + 2].e = "sleep" /\ trace[i + 2].n = RETRY_DELAY
             /\ (i + 3 \in Idx(trace)) => (trace[i + 3].e = "send")
    /\ \A i \in Idx(trace) :
        (trace[i].e = "sleep") =>
            (i > 1 /\ (CodeRetryable(trace[i - 1]) \/ trace[i - 1].e = "refresh_cerr"))

\* A logical request with a 5xx answer and a connection error among its
\* MAX_RETRIES failed attempts ended in the retry-exhausted error.
C21_Witness ==
    /\ AllAttemptsFailed
    /\ outcome.kind = "RetryExhausted"
    /\ \E i \in Idx(trace) : trace[i].e = "cerr"
    /\ \E i \in Idx(trace) : Is5xx(trace[i])
    /\ Count(trace, "sleep") = MAX_RETRIES

====
